---- MODULE Spec2Model ----
(***************************************************************************)
(* Model of the OCEO SFTP/CSV export client (Maritime-AI/oceo-sftp-csv-go): *)
(* the record model of models/models.go (Validate, GetLocation,            *)
(* NumDaysWorked, the endorsement Delimiter) and the upload operations of  *)
(* the two sftpclient snapshots (sftpclient.go and unnamed/part_001).      *)
(*                                                                         *)
(* Conventions.                                                            *)
(*  - A Go string is a sequence of one-character strings.                  *)
(*  - A Go pointer (to string, int64, float64, time.Time or a record) is  *)
(*    a sequence of length 0 (nil) or 1 (the pointee).                     *)
(*  - A Go error is its message, NoErr for the nil error.                  *)
(*  - A float64 number of days is an integer count of quarter days.        *)
(*  - A time.Time is an integer count of hours since an epoch; a           *)
(*    time.Duration is an integer count of hours, kept within the range    *)
(*    of int64 nanoseconds.                                                *)
(***************************************************************************)
EXTENDS Integers, Sequences, FiniteSets, TLC

VARIABLES
    op,      \* pure-function specifications: the function applied, "none" before
    arg,     \* pure-function specifications: the input
    ret,     \* pure-function specifications: the value returned
    client,  \* the OCEOSFTPClient value: snapshot and (sftpclient.go) orgName
    clock,   \* seconds passed since the first reading of time.Now()
    remote,  \* the remote file system: file name -> what was written
    ncalls,  \* upload calls started so far
    call,    \* the upload call in progress, or the last one returned
    calls,   \* concurrent uploads: the upload call of each goroutine
    sessions \* concurrent uploads: the connections, clients and files opened

vars == <<op, arg, ret, client, clock, remote, ncalls, call, calls, sessions>>

----------------------------------------------------------------------------
(* Pointers *)

None == <<>>

Some(v) == <<v>>

IsNil(p) == p = None

Deref(p) == p[1]

(* Strings *)

EmptyStr == <<>>

StrA == <<"a">>

\* the values a required string field takes in the inputs
ReqStr == {EmptyStr, StrA}

\* the values an optional *string field takes in the inputs
OptStr == {None, Some(StrA)}

(* Errors *)

NoErr == "<nil>"

----------------------------------------------------------------------------
(* models/models.go: Validate, one operator per record kind.  The argument  *)
(* is the receiver pointer.                                                *)

CrewValidate(c) ==
    IF IsNil(c) THEN "missing crew"
    ELSE IF Len(Deref(c).ContextID) = 0 THEN "missing context ID"
    ELSE IF Len(Deref(c).CrewExternalID) = 0 THEN "missing crew external ID"
    ELSE IF Len(Deref(c).FirstName) = 0 THEN "missing first name"
    ELSE IF Len(Deref(c).LastName) = 0 THEN "missing last name"
    ELSE NoErr

CrewCredentialValidate(cc) ==
    IF IsNil(cc) THEN "missing crew credential"
    ELSE IF Len(Deref(cc).ContextID) = 0 THEN "missing context id"
    ELSE IF Len(Deref(cc).CrewExternalID) = 0 THEN "missing crew external id"
    ELSE IF Len(Deref(cc).Title) = 0 THEN "missing title"
    ELSE NoErr

CrewSeatimeValidateNumDaysOnly(st) ==
    IF IsNil(st) THEN "missing crew credential"
    ELSE IF Len(Deref(st).ContextID) = 0 THEN "missing context id"
    ELSE IF Len(Deref(st).CrewExternalID) = 0 THEN "missing crew external id"
    ELSE IF Len(Deref(st).VesselName) = 0 THEN "missing vessel name"
    ELSE LET isCrewOnAndOff == ~IsNil(Deref(st).CrewedOn) /\ ~IsNil(Deref(st).CrewedOff)
             isNumDays == ~IsNil(Deref(st).NumDays)
         IN  IF ~isCrewOnAndOff /\ ~isNumDays
             THEN "must provide either crew on/off or num days"
             ELSE NoErr

CrewSeatimeValidate(st) ==
    IF IsNil(st) THEN "missing crew credential"
    ELSE IF Len(Deref(st).ContextID) = 0 THEN "missing context id"
    ELSE IF Len(Deref(st).CrewExternalID) = 0 THEN "missing crew external id"
    ELSE IF Len(Deref(st).VesselName) = 0 THEN "missing vessel name"
    ELSE LET isCrewOnAndOff == ~IsNil(Deref(st).CrewedOn) /\ ~IsNil(Deref(st).CrewedOff)
             isNumDays == ~IsNil(Deref(st).NumDays) /\ Deref(Deref(st).NumDays) > 0
         IN  IF ~isCrewOnAndOff /\ ~isNumDays
             THEN "must provide either crew on/off or num days"
             ELSE NoErr

VesselValidate(v) ==
    IF IsNil(v) THEN "missing vessel"
    ELSE IF Len(Deref(v).ContextID) = 0 THEN "missing context id"
    ELSE IF Len(Deref(v).ExternalID) = 0 THEN "missing external id"
    ELSE IF Len(Deref(v).VesselExternalID) = 0 THEN "missing vessel external id"
    ELSE IF Len(Deref(v).Name) = 0 THEN "missing vessel name"
    ELSE NoErr

VesselScheduleValidate(vs) ==
    IF IsNil(vs) THEN "missing vessel schedule"
    ELSE IF Len(Deref(vs).ContextID) = 0 THEN "missing context id"
    ELSE IF Len(Deref(vs).ExternalID) = 0 THEN "missing external id"
    ELSE IF Len(Deref(vs).VesselName) = 0 THEN "missing vessel name"
    ELSE IF Len(Deref(vs).VesselExternalID) = 0 THEN "missing vessel external id"
    ELSE IF Len(Deref(vs).ServiceStartAt) = 0 THEN "missing service start at"
    ELSE IF Len(Deref(vs).ServiceEndAt) = 0 THEN "missing service ended at"
    ELSE NoErr

VesselSchedulePositionValidateNoExternalID(vp) ==
    IF IsNil(vp) THEN "missing vessel schedule position"
    ELSE IF Len(Deref(vp).ContextID) = 0 THEN "missing context id"
    ELSE IF Len(Deref(vp).VesselExternalID) = 0 THEN "missing vessel external id"
    ELSE IF Len(Deref(vp).Position) = 0 THEN "missing position"
    ELSE IF Len(Deref(vp).CredentialTitle) = 0 THEN "missing position credential title"
    ELSE NoErr

VesselSchedulePositionValidate(vp) ==
    IF IsNil(vp) THEN "missing vessel schedule position"
    ELSE IF Len(Deref(vp).ExternalID) = 0 THEN "missing external id"
    ELSE IF Len(Deref(vp).ContextID) = 0 THEN "missing context id"
    ELSE IF Len(Deref(vp).VesselExternalID) = 0 THEN "missing vessel external id"
    ELSE IF Len(Deref(vp).Position) = 0 THEN "missing position"
    ELSE IF Len(Deref(vp).CredentialTitle) = 0 THEN "missing position credential title"
    ELSE NoErr

\* CrewSchedule.Validate with the crew external id checked before the vessel
\* external id
CrewScheduleValidateCrewFirst(vs) ==
    IF IsNil(vs) THEN "missing crew schedule"
    ELSE IF Len(Deref(vs).ContextID) = 0 THEN "missing context id"
    ELSE IF Len(Deref(vs).ExternalID) = 0 THEN "missing external id"
    ELSE IF Len(Deref(vs).CrewExternalID) = 0 THEN "missing crew external id"
    ELSE IF Len(Deref(vs).VesselExternalID) = 0 THEN "missing vessel external id"
    ELSE IF Len(Deref(vs).VesselName) = 0 THEN "missing vessel name"
    ELSE IF Len(Deref(vs).ServiceStartAt) = 0 THEN "missing service started at"
    ELSE IF Len(Deref(vs).ServiceEndAt) = 0 THEN "missing service ended at"
    ELSE NoErr

CrewScheduleValidate(vs) ==
    IF IsNil(vs) THEN "missing crew schedule"
    ELSE IF Len(Deref(vs).ContextID) = 0 THEN "missing context id"
    ELSE IF Len(Deref(vs).ExternalID) = 0 THEN "missing external id"
    ELSE IF Len(Deref(vs).VesselExternalID) = 0 THEN "missing vessel external id"
    ELSE IF Len(Deref(vs).CrewExternalID) = 0 THEN "missing crew external id"
    ELSE IF Len(Deref(vs).VesselName) = 0 THEN "missing vessel name"
    ELSE IF Len(Deref(vs).ServiceStartAt) = 0 THEN "missing service started at"
    ELSE IF Len(Deref(vs).ServiceEndAt) = 0 THEN "missing service ended at"
    ELSE NoErr

CrewSchedulePositionValidate(vs) ==
    IF IsNil(vs) THEN "missing crew schedule position"
    ELSE IF Len(Deref(vs).ContextID) = 0 THEN "missing context id"
    ELSE IF Len(Deref(vs).ExternalID) = 0 THEN "missing external id"
    ELSE IF Len(Deref(vs).VesselExternalID) = 0 THEN "missing vessel external id"
    ELSE IF Len(Deref(vs).CrewExternalID) = 0 THEN "missing crew external id"
    ELSE IF Len(Deref(vs).Position) = 0 THEN "missing position"
    ELSE IF Len(Deref(vs).CredentialTitle) = 0 THEN "missing credential"
    ELSE NoErr

\* Validate of the record kind `kind` (static dispatch on the receiver type)
Validate(kind, p) ==
    CASE kind = "Crew" -> CrewValidate(p)
      [] kind = "CrewCredential" -> CrewCredentialValidate(p)
      [] kind = "CrewSeatime" -> CrewSeatimeValidate(p)
      [] kind = "Vessel" -> VesselValidate(p)
      [] kind = "VesselSchedule" -> VesselScheduleValidate(p)
      [] kind = "VesselSchedulePosition" -> VesselSchedulePositionValidate(p)
      [] kind = "CrewSchedule" -> CrewScheduleValidate(p)
      [] kind = "CrewSchedulePosition" -> CrewSchedulePositionValidate(p)

----------------------------------------------------------------------------
(* The record kinds of models/models.go and the inputs drawn from them.    *)

\* largest crewed-on / crewed-off / now instant of the inputs, in half days
MaxHalfDays == 8

\* an instant more than the range of a time.Duration (about 292 years) away
FarTime == 3000000

\* time.Time values, in hours since the epoch
TimeVals == {12 * k : k \in 0..MaxHalfDays} \cup {FarTime}

\* NumDays values, in quarter days: -1, 0, 1/2, 1 and 10 days
NumDaysVals == {-4, 0, 2, 4, 40}

\* ShiftInHours values
ShiftVals == {0, 8, 12, 99}

OptOf(S) == {None} \cup {Some(v) : v \in S}

CrewRecs ==
    [ContextID : ReqStr, CrewExternalID : ReqStr, FirstName : ReqStr,
     LastName : ReqStr, MiddleName : OptStr, JobTitle : OptStr, City : OptStr,
     State : OptStr, Country : OptStr, Email : OptStr, Phone : OptStr]

CrewCredentialRecs ==
    [ContextID : ReqStr, CrewExternalID : ReqStr, Number : OptStr,
     Title : ReqStr, Type : OptStr, Endorsements : ReqStr, IssuedAt : OptStr,
     ExpiresAt : OptStr]

\* a CrewSeatime; `others` sets or leaves nil the eleven descriptive fields
CrewSeatime(ctx, crew, on, off, nd, shift, vessel, others) ==
    [ContextID |-> ctx, CrewExternalID |-> crew, CrewedOn |-> on,
     CrewedOff |-> off, NumDays |-> nd,
     Position |-> IF others THEN Some(StrA) ELSE None,
     ShiftInHours |-> shift, VesselName |-> vessel,
     VesselFlag |-> IF others THEN Some(StrA) ELSE None,
     VesselType |-> IF others THEN Some(StrA) ELSE None,
     VesselCapacityGT |-> IF others THEN Some(1) ELSE None,
     VesselHorsePower |-> IF others THEN Some(1) ELSE None,
     VesselPropulsionType |-> IF others THEN Some(StrA) ELSE None,
     VesselIMONumber |-> IF others THEN Some(1) ELSE None,
     VesselMMSINumber |-> IF others THEN Some(1) ELSE None,
     Compensation |-> IF others THEN Some(StrA) ELSE None,
     CompensationFrequency |-> IF others THEN Some(StrA) ELSE None,
     CompanyName |-> IF others THEN Some(StrA) ELSE None]

CrewSeatimeRecsOver(T, N, S) ==
    {CrewSeatime(ctx, crew, on, off, nd, shift, vessel, others) :
        ctx \in ReqStr, crew \in ReqStr, vessel \in ReqStr,
        on \in OptOf(T), off \in OptOf(T), nd \in OptOf(N), shift \in OptOf(S),
        others \in BOOLEAN}

CrewSeatimeRecs == CrewSeatimeRecsOver(TimeVals, NumDaysVals, ShiftVals)

VesselRecs ==
    [ContextID : ReqStr, ExternalID : ReqStr, VesselExternalID : ReqStr,
     Name : ReqStr, MMSINumber : OptStr, IMONumber : OptStr,
     AdditionalIdentifier : OptStr]

VesselScheduleRecs ==
    [ContextID : ReqStr, ExternalID : ReqStr, VesselExternalID : ReqStr,
     VesselName : ReqStr, VesselIMONumber : OptStr, VesselMMSINumber : OptStr,
     Client : OptStr, Description : OptStr, ServiceStartAt : ReqStr,
     ServiceEndAt : ReqStr]

VesselSchedulePositionRecs ==
    [ContextID : ReqStr, ExternalID : ReqStr, VesselExternalID : ReqStr,
     Position : ReqStr, CredentialTitle : ReqStr, Endorsements : OptStr,
     ServiceStartAt : OptStr, ServiceEndAt : OptStr]

CrewScheduleRecs ==
    [ContextID : ReqStr, ExternalID : ReqStr, CrewExternalID : ReqStr,
     VesselExternalID : ReqStr, VesselName : ReqStr, VesselIMONumber : OptStr,
     VesselMMSINumber : OptStr, ServiceStartAt : ReqStr, ServiceEndAt : ReqStr]

CrewSchedulePositionRecs ==
    [ContextID : ReqStr, ExternalID : ReqStr, CrewExternalID : ReqStr,
     VesselExternalID : ReqStr, Position : ReqStr, CredentialTitle : ReqStr,
     Endorsements : ReqStr, ServiceStartAt : OptStr, ServiceEndAt : OptStr]

\* the seven record kinds that have an upload operation
UploadKinds ==
    {"Crew", "CrewCredential", "Vessel", "VesselSchedule",
     "VesselSchedulePosition", "CrewSchedule", "CrewSchedulePosition"}

Kinds == UploadKinds \cup {"CrewSeatime"}

\* the CrewSeatime inputs of Validate: one instant is enough, Validate reads
\* only whether the dates are set
RecsOf(kind) ==
    CASE kind = "Crew" -> CrewRecs
      [] kind = "CrewCredential" -> CrewCredentialRecs
      [] kind = "CrewSeatime" -> CrewSeatimeRecsOver({0}, NumDaysVals, {8})
      [] kind = "Vessel" -> VesselRecs
      [] kind = "VesselSchedule" -> VesselScheduleRecs
      [] kind = "VesselSchedulePosition" -> VesselSchedulePositionRecs
      [] kind = "CrewSchedule" -> CrewScheduleRecs
      [] kind = "CrewSchedulePosition" -> CrewSchedulePositionRecs

----------------------------------------------------------------------------
(* The upload state while a pure function is being checked: no client.     *)

Pending == "<pending>"

NoClient == [snapshot |-> "none", orgName |-> EmptyStr]

NoCall == [pc |-> "idle"]

NoUpload ==
    /\ client = NoClient
    /\ clock = 0
    /\ remote = <<>>
    /\ ncalls = 0
    /\ call = NoCall
    /\ calls = <<>>
    /\ sessions = <<>>

upload_vars == <<client, clock, remote, ncalls, call, calls, sessions>>

----------------------------------------------------------------------------
(* Specification SpecValidate: Validate applied to a record of any kind,   *)
(* or to a nil pointer.                                                    *)

InitValidate ==
    /\ op = "none"
    /\ \E kind \in Kinds :
          arg \in [kind : {kind}, ptr : OptOf(RecsOf(kind))]
    /\ ret = Pending
    /\ NoUpload

ValidateCall(kind) ==
    /\ op = "none"
    /\ arg.kind = kind
    /\ op' = "Validate"
    /\ ret' = Validate(kind, arg.ptr)
    /\ UNCHANGED <<arg, upload_vars>>

CrewValidateCall == ValidateCall("Crew")

CrewCredentialValidateCall == ValidateCall("CrewCredential")

CrewSeatimeValidateCall == ValidateCall("CrewSeatime")

VesselValidateCall == ValidateCall("Vessel")

VesselScheduleValidateCall == ValidateCall("VesselSchedule")

VesselSchedulePositionValidateCall == ValidateCall("VesselSchedulePosition")

CrewScheduleValidateCall == ValidateCall("CrewSchedule")

CrewSchedulePositionValidateCall == ValidateCall("CrewSchedulePosition")

NextValidate ==
    \/ CrewValidateCall
    \/ CrewCredentialValidateCall
    \/ CrewSeatimeValidateCall
    \/ VesselValidateCall
    \/ VesselScheduleValidateCall
    \/ VesselSchedulePositionValidateCall
    \/ CrewScheduleValidateCall
    \/ CrewSchedulePositionValidateCall

SpecValidate == InitValidate /\ [][NextValidate]_vars

----------------------------------------------------------------------------
(* Claims about Validate (SpecValidate).                                   *)

\* the record Validate was applied to
ValidatedRec == Deref(arg.ptr)

Validated(kind) == op = "Validate" /\ arg.kind = kind /\ ~IsNil(arg.ptr)

AllSet(rec, fields) == \A f \in fields : rec[f] # EmptyStr

\* the required fields of the table of section 3 of the specification; for
\* VesselSchedulePosition the table's first entry, "context id (or external
\* id, depending on snapshot)", is kept apart
TableRequired(kind) ==
    CASE kind = "Crew" -> {"ContextID", "CrewExternalID", "FirstName", "LastName"}
      [] kind = "CrewCredential" -> {"ContextID", "CrewExternalID", "Title"}
      [] kind = "Vessel" -> {"ContextID", "ExternalID", "VesselExternalID", "Name"}
      [] kind = "VesselSchedule" ->
            {"ContextID", "ExternalID", "VesselName", "VesselExternalID",
             "ServiceStartAt", "ServiceEndAt"}
      [] kind = "VesselSchedulePosition" ->
            {"VesselExternalID", "Position", "CredentialTitle"}
      [] kind = "CrewSchedule" ->
            {"ContextID", "ExternalID", "CrewExternalID", "VesselExternalID",
             "VesselName", "ServiceStartAt", "ServiceEndAt"}
      [] kind = "CrewSchedulePosition" ->
            {"ContextID", "ExternalID", "VesselExternalID", "CrewExternalID",
             "Position", "CredentialTitle"}

\* C1 as stated: for the seven kinds and every non-nil record, Validate
\* succeeds iff every field the table of section 3 lists as required is a
\* non-empty string, where for VesselSchedulePosition the table asks for the
\* context id or the external id.
C1_AsStated ==
    \A kind \in UploadKinds :
        Validated(kind) =>
            (ret = NoErr <=>
                /\ AllSet(ValidatedRec, TableRequired(kind))
                /\ kind = "VesselSchedulePosition" =>
                      \/ ValidatedRec.ContextID # EmptyStr
                      \/ ValidatedRec.ExternalID # EmptyStr)

\* C1 amended: for the seven kinds and every non-nil record, Validate
\* succeeds iff every required field of the table is a non-empty string,
\* where VesselSchedulePosition requires the external id AND the context id;
\* the optional fields do not enter the condition.
C1_ValidateIffRequired ==
    \A kind \in UploadKinds :
        Validated(kind) =>
            (ret = NoErr <=>
                /\ AllSet(ValidatedRec, TableRequired(kind))
                /\ kind = "VesselSchedulePosition" =>
                      /\ ValidatedRec.ContextID # EmptyStr
                      /\ ValidatedRec.ExternalID # EmptyStr)

\* a VesselSchedulePosition with a context id and no external id, every other
\* field set, has been rejected
C1_Witness ==
    /\ Validated("VesselSchedulePosition")
    /\ ValidatedRec.ContextID # EmptyStr
    /\ ValidatedRec.ExternalID = EmptyStr
    /\ AllSet(ValidatedRec, TableRequired("VesselSchedulePosition"))
    /\ ValidatedRec.Endorsements # None
    /\ ret = "missing external id"

\* the order in which the table of section 3 of the specification lists the
\* required fields of a kind ("all of the above except optional fields" for
\* CrewSchedule: the order of its key attributes)
TableOrder(kind) ==
    CASE kind = "Crew" -> <<"ContextID", "CrewExternalID", "FirstName", "LastName">>
      [] kind = "CrewCredential" -> <<"ContextID", "CrewExternalID", "Title">>
      [] kind = "CrewSeatime" -> <<"ContextID", "CrewExternalID", "VesselName">>
      [] kind = "Vessel" -> <<"ContextID", "ExternalID", "VesselExternalID", "Name">>
      [] kind = "VesselSchedule" ->
            <<"ContextID", "ExternalID", "VesselName", "VesselExternalID",
              "ServiceStartAt", "ServiceEndAt">>
      [] kind = "VesselSchedulePosition" ->
            <<"ContextID", "ExternalID", "VesselExternalID", "Position",
              "CredentialTitle">>
      [] kind = "CrewSchedule" ->
            <<"ContextID", "ExternalID", "CrewExternalID", "VesselExternalID",
              "VesselName", "ServiceStartAt", "ServiceEndAt">>
      [] kind = "CrewSchedulePosition" ->
            <<"ContextID", "ExternalID", "VesselExternalID", "CrewExternalID",
              "Position", "CredentialTitle">>

\* the order of the table, but vessel external id before crew external id
\* for CrewSchedule and external id before context id for
\* VesselSchedulePosition
CheckOrder(kind) ==
    CASE kind = "VesselSchedulePosition" ->
            <<"ExternalID", "ContextID", "VesselExternalID", "Position",
              "CredentialTitle">>
      [] kind = "CrewSchedule" ->
            <<"ContextID", "ExternalID", "VesselExternalID", "CrewExternalID",
              "VesselName", "ServiceStartAt", "ServiceEndAt">>
      [] OTHER -> TableOrder(kind)

\* the error that names one missing field of a kind
Missing(kind, field) ==
    CASE field = "ContextID" ->
            IF kind = "Crew" THEN "missing context ID" ELSE "missing context id"
      [] field = "ExternalID" -> "missing external id"
      [] field = "CrewExternalID" ->
            IF kind = "Crew" THEN "missing crew external ID"
            ELSE "missing crew external id"
      [] field = "VesselExternalID" -> "missing vessel external id"
      [] field = "FirstName" -> "missing first name"
      [] field = "LastName" -> "missing last name"
      [] field = "Title" -> "missing title"
      [] field = "Name" -> "missing vessel name"
      [] field = "VesselName" -> "missing vessel name"
      [] field = "Position" -> "missing position"
      [] field = "CredentialTitle" ->
            IF kind = "VesselSchedulePosition"
            THEN "missing position credential title" ELSE "missing credential"
      [] field = "ServiceStartAt" ->
            IF kind = "VesselSchedule" THEN "missing service start at"
            ELSE "missing service started at"
      [] field = "ServiceEndAt" -> "missing service ended at"

EmptyFields(rec, order) == {i \in 1..Len(order) : rec[order[i]] = EmptyStr}

\* the first field of the order that is empty in the record
FirstEmpty(rec, order) ==
    order[CHOOSE i \in EmptyFields(rec, order) :
              \A j \in EmptyFields(rec, order) : i <= j]

\* Validate reports the first empty field of the order, and that field only
ReportsFirstEmpty(kind, order) ==
    (Validated(kind) /\ EmptyFields(ValidatedRec, order) # {})
        => ret = Missing(kind, FirstEmpty(ValidatedRec, order))

\* C13 as stated: for every record kind, when one or more required fields
\* are empty, the error of Validate names the first empty field in the order
\* of the table of section 3 of the specification.
C13_AsStated == \A kind \in Kinds : ReportsFirstEmpty(kind, TableOrder(kind))

\* C13 amended: for every record kind, when one or more required fields are
\* empty, the error of Validate names the first empty field, and none other,
\* in a fixed order: the order of the table of section 3, except that
\* CrewSchedule checks the vessel external id before the crew external id
\* and VesselSchedulePosition checks the external id before the context id.
C13_FirstMissingField == \A kind \in Kinds : ReportsFirstEmpty(kind, CheckOrder(kind))

\* a CrewSchedule without crew external id, vessel external id and service
\* end has been rejected for its vessel external id
C13_Witness ==
    /\ Validated("CrewSchedule")
    /\ EmptyFields(ValidatedRec, TableOrder("CrewSchedule")) = {3, 4, 7}
    /\ ret = "missing vessel external id"

\* C2: for every non-nil CrewSeatime, Validate succeeds iff context id, crew
\* external id and vessel name are non-empty and (crewed-on and crewed-off are
\* both present, or the day count is present and greater than 0).
C2_SeatimeValidate ==
    Validated("CrewSeatime") =>
        (ret = NoErr <=>
            /\ AllSet(ValidatedRec, {"ContextID", "CrewExternalID", "VesselName"})
            /\ \/ ValidatedRec.CrewedOn # None /\ ValidatedRec.CrewedOff # None
               \/ ValidatedRec.NumDays # None /\ Deref(ValidatedRec.NumDays) > 0)

\* a CrewSeatime with its three strings set, only crewed-on and a day count
\* of 0 has been rejected
C2_Witness ==
    /\ Validated("CrewSeatime")
    /\ AllSet(ValidatedRec, {"ContextID", "CrewExternalID", "VesselName"})
    /\ ValidatedRec.CrewedOn # None
    /\ ValidatedRec.CrewedOff = None
    /\ ValidatedRec.NumDays = Some(0)
    /\ ret = "must provide either crew on/off or num days"

----------------------------------------------------------------------------
(* models/models.go: CrewSeatime.NumDaysWorked.                            *)

\* the largest time.Duration (2^63 - 1 nanoseconds), in whole hours
MaxDurationHours == 2562047

\* time.Hour * 24, in hours
HoursPerDay == 24

\* quarter days in one day: the unit of the float64 day counts
Quarter == 4

\* t.Sub(u): the duration t - u, or the largest (smallest) Duration when the
\* difference does not fit
TimeSub(t, u) ==
    IF t - u > MaxDurationHours THEN MaxDurationHours
    ELSE IF t - u < -MaxDurationHours THEN -MaxDurationHours
    ELSE t - u

\* int64(x / y) for y > 0: the conversion truncates toward zero
TruncDiv(x, y) == IF x >= 0 THEN x \div y ELSE -((-x) \div y)

\* 1.5 * x on a day count held in quarter days (exact when x is even)
OneAndAHalf(x) == (3 * x) \div 2

\* what a call of NumDaysWorked produces: a float64, or a run-time panic
Returns(v) == [panic |-> FALSE, v |-> v]

Panics == [panic |-> TRUE, v |-> 0]

NumDaysWorkedNoShiftDefault(st, now) ==
    IF ~IsNil(st.NumDays) THEN
        LET nd == Deref(st.NumDays)
        IN  IF ~IsNil(st.ShiftInHours)
            THEN CASE Deref(st.ShiftInHours) = 8 -> Returns(nd)
                   [] OTHER -> Returns(OneAndAHalf(nd))
            ELSE Returns(nd)
    ELSE IF ~IsNil(st.CrewedOn) THEN
        LET endAt == (IF ~IsNil(st.CrewedOff) THEN Deref(st.CrewedOff) ELSE now)
                        + HoursPerDay
            d == TimeSub(endAt, Deref(st.CrewedOn))
            days == Quarter * TruncDiv(d, HoursPerDay)
        IN  IF IsNil(st.ShiftInHours) THEN Panics
            ELSE IF Deref(st.ShiftInHours) = 8 THEN Returns(days)
            ELSE Returns(OneAndAHalf(days))
    ELSE Returns(0)

NumDaysWorkedExclusive(st, now) ==
    IF ~IsNil(st.NumDays) THEN
        LET nd == Deref(st.NumDays)
        IN  IF ~IsNil(st.ShiftInHours)
            THEN CASE Deref(st.ShiftInHours) = 8 -> Returns(nd)
                   [] Deref(st.ShiftInHours) = 12 -> Returns(OneAndAHalf(nd))
                   [] OTHER -> Returns(0)
            ELSE Returns(nd)
    ELSE IF ~IsNil(st.CrewedOn) THEN
        LET endAt == (IF ~IsNil(st.CrewedOff) THEN Deref(st.CrewedOff) ELSE now)
            d == TimeSub(endAt, Deref(st.CrewedOn))
            days == Quarter * TruncDiv(d, HoursPerDay)
        IN  IF IsNil(st.ShiftInHours) THEN Panics
            ELSE IF Deref(st.ShiftInHours) = 8 THEN Returns(days)
            ELSE Returns(OneAndAHalf(days))
    ELSE Returns(0)

\* st is the receiver (not nil), now is time.Now()
NumDaysWorked(st, now) ==
    IF ~IsNil(st.NumDays) THEN
        LET nd == Deref(st.NumDays)
        IN  IF ~IsNil(st.ShiftInHours)
            THEN CASE Deref(st.ShiftInHours) = 8 -> Returns(nd)
                   [] Deref(st.ShiftInHours) = 12 -> Returns(OneAndAHalf(nd))
                   [] OTHER -> Returns(0)
            ELSE Returns(nd)
    ELSE IF ~IsNil(st.CrewedOn) THEN
        LET endAt == (IF ~IsNil(st.CrewedOff) THEN Deref(st.CrewedOff) ELSE now)
                        + HoursPerDay
            d == TimeSub(endAt, Deref(st.CrewedOn))
            days == Quarter * TruncDiv(d, HoursPerDay)
        IN  \* *st.ShiftInHours: nil pointer dereference when the shift is absent
            IF IsNil(st.ShiftInHours) THEN Panics
            ELSE IF Deref(st.ShiftInHours) = 8 THEN Returns(days)
            ELSE Returns(OneAndAHalf(days))
    ELSE Returns(0)

----------------------------------------------------------------------------
(* Specification SpecSeatime: NumDaysWorked applied to a CrewSeatime, at   *)
(* any instant.                                                            *)

InitSeatime ==
    /\ op = "none"
    /\ arg \in CrewSeatimeRecs
    /\ ret = Pending
    /\ NoUpload

NumDaysWorkedCall ==
    /\ op = "none"
    /\ op' = "NumDaysWorked"
    /\ \E now \in TimeVals : ret' = NumDaysWorked(arg, now)
    /\ UNCHANGED <<arg, upload_vars>>

NextSeatime == NumDaysWorkedCall

SpecSeatime == InitSeatime /\ [][NextSeatime]_vars

----------------------------------------------------------------------------
(* Claims about NumDaysWorked (SpecSeatime).                               *)

Worked == op = "NumDaysWorked"

\* C5 as stated: NumDaysWorked has no failure outcome: for every CrewSeatime
\* that passes Validate it completes and returns a number.
C5_NoFailure ==
    (Worked /\ CrewSeatimeValidate(Some(arg)) = NoErr) => ~ret.panic

\* a validated record with both dates, no day count and a shift of 8 has
\* returned a number
C5_Witness ==
    /\ Worked
    /\ CrewSeatimeValidate(Some(arg)) = NoErr
    /\ arg.NumDays = None
    /\ arg.ShiftInHours = Some(8)
    /\ ~ret.panic

\* C6: with a day count n present, NumDaysWorked returns n when the shift is
\* absent or 8, 1.5 * n when the shift is 12 and 0 for every other shift,
\* whether or not the dates are present; with neither a day count nor a
\* crewed-on date it returns 0.  (Values are in quarter days: 2 * v = 3 * n
\* says v = 1.5 * n.)
C6_NumDaysBranch ==
    Worked =>
        /\ arg.NumDays # None =>
              LET n == Deref(arg.NumDays)
                  shift == arg.ShiftInHours
              IN  /\ ~ret.panic
                  /\ (shift = None \/ shift = Some(8)) => ret.v = n
                  /\ shift = Some(12) => 2 * ret.v = 3 * n
                  /\ (shift # None /\ shift \notin {Some(8), Some(12)}) => ret.v = 0
        /\ (arg.NumDays = None /\ arg.CrewedOn = None) => ret = Returns(0)

\* a day count of 10 days with a shift of 12 and both dates present has
\* returned 15 days
C6_Witness ==
    /\ Worked
    /\ arg.NumDays = Some(10 * Quarter)
    /\ arg.ShiftInHours = Some(12)
    /\ arg.CrewedOn # None
    /\ arg.CrewedOff # None
    /\ ret = Returns(15 * Quarter)

\* the records of C7: no day count, both dates and a shift present
DateBranch ==
    /\ Worked
    /\ arg.NumDays = None
    /\ arg.CrewedOn # None
    /\ arg.CrewedOff # None
    /\ arg.ShiftInHours # None

\* the whole number of 24-hour days in (E - D) plus one day, truncated
InclusiveDays(D, E) == TruncDiv((E - D) + 24, 24)

DateBranchResult(k) ==
    /\ ~ret.panic
    /\ arg.ShiftInHours = Some(8) => ret.v = Quarter * k
    /\ arg.ShiftInHours # Some(8) => 2 * ret.v = 3 * Quarter * k

\* C7 as stated: with no day count, crewed-on = D, crewed-off = E and a shift
\* present, NumDaysWorked is k for a shift of 8 and 1.5 * k for every other
\* shift, k the whole number of 24-hour days in (E - D) plus one day.
C7_AsStated ==
    DateBranch =>
        DateBranchResult(InclusiveDays(Deref(arg.CrewedOn), Deref(arg.CrewedOff)))

\* C7 amended: the same, for dates whose distance (E - D) plus one day is
\* within the range of a time.Duration (about 292 years either way).
C7_DateBranch ==
    LET D == Deref(arg.CrewedOn)
        E == Deref(arg.CrewedOff)
    IN  (/\ DateBranch
         /\ (E - D) + 24 <= MaxDurationHours
         /\ (E - D) + 24 >= -MaxDurationHours)
            => DateBranchResult(InclusiveDays(D, E))

\* crewed-off four days after crewed-on with a shift of 8 has returned 5 days
C7_Witness ==
    /\ DateBranch
    /\ Deref(arg.CrewedOff) = Deref(arg.CrewedOn) + 4 * 24
    /\ arg.ShiftInHours = Some(8)
    /\ ret = Returns(5 * Quarter)

\* C20 as stated: for every CrewSeatime that passes Validate and for which
\* NumDaysWorked returns, the returned number of days is not negative, also
\* with a day count next to a crewed-on/crewed-off pair and with crewed-off
\* before crewed-on.
C20_NonNegative ==
    (Worked /\ CrewSeatimeValidate(Some(arg)) = NoErr /\ ~ret.panic) => ret.v >= 0

\* a validated record with crewed-off two days before crewed-on, no day
\* count and a shift of 8 has returned a number
C20_Witness ==
    /\ Worked
    /\ CrewSeatimeValidate(Some(arg)) = NoErr
    /\ arg.NumDays = None
    /\ arg.CrewedOn = Some(48)
    /\ arg.CrewedOff = Some(0)
    /\ arg.ShiftInHours = Some(8)
    /\ ~ret.panic

----------------------------------------------------------------------------
(* models/models.go: Crew.GetLocation.                                     *)

\* the separator ", "
CommaSpace == <<",", " ">>

\* strings.Join(elems, sep)
RECURSIVE Join(_, _)
Join(elems, sep) ==
    IF Len(elems) = 0 THEN EmptyStr
    ELSE IF Len(elems) = 1 THEN elems[1]
    ELSE elems[1] \o sep \o Join(Tail(elems), sep)

GetLocationBareCountry(r) ==
    IF IsNil(r) THEN EmptyStr
    ELSE
        LET cityParts == IF ~IsNil(Deref(r).City) THEN <<Deref(Deref(r).City)>> ELSE <<>>
            cityStateParts ==
                IF ~IsNil(Deref(r).State)
                THEN Append(cityParts, Deref(Deref(r).State))
                ELSE cityParts
            loc == Join(cityStateParts, CommaSpace)
        IN  IF ~IsNil(Deref(r).Country)
            THEN loc \o Deref(Deref(r).Country)
            ELSE loc

\* r is the receiver pointer
GetLocation(r) ==
    IF IsNil(r) THEN EmptyStr
    ELSE
        LET cityParts == IF ~IsNil(Deref(r).City) THEN <<Deref(Deref(r).City)>> ELSE <<>>
            cityStateParts ==
                IF ~IsNil(Deref(r).State)
                THEN Append(cityParts, Deref(Deref(r).State))
                ELSE cityParts
            loc == Join(cityStateParts, CommaSpace)
        IN  IF ~IsNil(Deref(r).Country)
            THEN loc \o CommaSpace \o Deref(Deref(r).Country)
            ELSE loc

----------------------------------------------------------------------------
(* Specification SpecLocation: GetLocation applied to a Crew whose city,   *)
(* state and country are each absent, empty or set, or to a nil pointer.   *)

CityVals == OptOf({EmptyStr, <<"O", "s", "l", "o">>})

StateVals == OptOf({EmptyStr, <<"N", "Y">>})

CountryVals == OptOf({EmptyStr, <<"U", "S">>})

CrewLocationRecs ==
    [ContextID : ReqStr, CrewExternalID : ReqStr, FirstName : ReqStr,
     LastName : ReqStr, MiddleName : {None}, JobTitle : OptStr,
     City : CityVals, State : StateVals, Country : CountryVals,
     Email : {None}, Phone : {None}]

InitLocation ==
    /\ op = "none"
    /\ arg \in OptOf(CrewLocationRecs)
    /\ ret = Pending
    /\ NoUpload

GetLocationCall ==
    /\ op = "none"
    /\ op' = "GetLocation"
    /\ ret' = GetLocation(arg)
    /\ UNCHANGED <<arg, upload_vars>>

NextLocation == GetLocationCall

SpecLocation == InitLocation /\ [][NextLocation]_vars

----------------------------------------------------------------------------
(* Claims about GetLocation (SpecLocation).                                *)

Located == op = "GetLocation"

\* C8: with only the city present GetLocation is the city; with city and
\* state present and no country it is "city, state"; with all three present
\* it is "city, state, country"; for a nil record it is the empty string.
C8_Location ==
    Located =>
        /\ arg = None => ret = EmptyStr
        /\ arg # None =>
              LET c == Deref(arg).City
                  s == Deref(arg).State
                  k == Deref(arg).Country
              IN  /\ (c # None /\ s = None /\ k = None) => ret = Deref(c)
                  /\ (c # None /\ s # None /\ k = None) =>
                        ret = Deref(c) \o <<",", " ">> \o Deref(s)
                  /\ (c # None /\ s # None /\ k # None) =>
                        ret = Deref(c) \o <<",", " ">> \o Deref(s)
                                \o <<",", " ">> \o Deref(k)

\* "Oslo, NY, US" has been returned for a crew with the three fields set
C8_Witness ==
    /\ Located
    /\ arg # None
    /\ Deref(arg).City = Some(<<"O", "s", "l", "o">>)
    /\ Deref(arg).State = Some(<<"N", "Y">>)
    /\ Deref(arg).Country = Some(<<"U", "S">>)
    /\ ret = <<"O", "s", "l", "o", ",", " ", "N", "Y", ",", " ", "U", "S">>

\* the segments of a crew that are present and not empty, in the order city,
\* state, country
Segments(crew) ==
    SelectSeq(<<crew.City, crew.State, crew.Country>>,
              LAMBDA p : p # None /\ Deref(p) # EmptyStr)

Present(segs) == [i \in 1..Len(segs) |-> Deref(segs[i])]

StartsWith(str, prefix) ==
    Len(str) >= Len(prefix) /\ SubSeq(str, 1, Len(prefix)) = prefix

EndsWith(str, suffix) ==
    Len(str) >= Len(suffix)
        /\ SubSeq(str, Len(str) - Len(suffix) + 1, Len(str)) = suffix

\* C9 as stated: for every combination of present, absent and empty city,
\* state and country, GetLocation is the non-empty segments joined with ", ":
\* it never starts or ends with ", " and never holds two adjacent separators.
C9_SmartJoin ==
    (Located /\ arg # None) =>
        /\ ret = Join(Present(Segments(Deref(arg))), <<",", " ">>)
        /\ ~StartsWith(ret, <<",", " ">>)
        /\ ~EndsWith(ret, <<",", " ">>)
        /\ \A i \in 1..Len(ret) - 3 : SubSeq(ret, i, i + 3) # <<",", " ", ",", " ">>

\* a crew with only the city set has had the city returned
C9_Witness ==
    /\ Located
    /\ arg # None
    /\ Deref(arg).City = Some(<<"O", "s", "l", "o">>)
    /\ Deref(arg).State = None
    /\ Deref(arg).Country = None
    /\ ret = <<"O", "s", "l", "o">>

----------------------------------------------------------------------------
(* models/models.go: the endorsement Delimiter.  The records carry the     *)
(* endorsements already encoded (Endorsements string); the source holds no *)
(* encoder or decoder, so the two are taken from section 4.4 of the        *)
(* specification: join with the Delimiter, and split on it.                *)

DelimiterBar == <<"|">>

Delimiter == <<"*", "|", "*">>

\* strings.Index(str, sep) for a non-empty sep, counted from 1; 0 when absent
Index(str, sep) ==
    LET hits == {i \in 1..(Len(str) - Len(sep) + 1) :
                    SubSeq(str, i, i + Len(sep) - 1) = sep}
    IN  IF hits = {} THEN 0 ELSE CHOOSE i \in hits : \A j \in hits : i <= j

\* strings.Split(str, sep) for a non-empty sep
RECURSIVE Split(_, _)
Split(str, sep) ==
    LET m == Index(str, sep)
    IN  IF m = 0 THEN <<str>>
        ELSE <<SubSeq(str, 1, m - 1)>>
                \o Split(SubSeq(str, m + Len(sep), Len(str)), sep)

EncodeEndorsements(list) == Join(list, Delimiter)

DecodeEndorsements(str) == Split(str, Delimiter)

----------------------------------------------------------------------------
(* Specification SpecEndorsements: a list of endorsements is encoded, and  *)
(* the encoding decoded.                                                   *)

\* longest endorsement list of the inputs
MaxEndorsements == 3

EndorsementVals ==
    {<<"A">>, <<"B">>, EmptyStr, <<"*", "|", "*">>, <<"A", "*", "|">>, <<"*", "B">>}

RECURSIVE SeqsUpTo(_, _)
SeqsUpTo(S, n) ==
    IF n = 0 THEN {<<>>}
    ELSE LET shorter == SeqsUpTo(S, n - 1)
         IN  shorter \cup {Append(q, v) : q \in {r \in shorter : Len(r) = n - 1}, v \in S}

InitEndorsements ==
    /\ op = "none"
    /\ arg \in SeqsUpTo(EndorsementVals, MaxEndorsements)
    /\ ret = Pending
    /\ NoUpload

EncodeCall ==
    /\ op = "none"
    /\ op' = "encoded"
    /\ ret' = [enc |-> EncodeEndorsements(arg)]
    /\ UNCHANGED <<arg, upload_vars>>

DecodeCall ==
    /\ op = "encoded"
    /\ op' = "decoded"
    /\ ret' = [enc |-> ret.enc, dec |-> DecodeEndorsements(ret.enc)]
    /\ UNCHANGED <<arg, upload_vars>>

NextEndorsements == EncodeCall \/ DecodeCall

SpecEndorsements == InitEndorsements /\ [][NextEndorsements]_vars

----------------------------------------------------------------------------
(* Claims about the endorsement encoding (SpecEndorsements).               *)

\* C10 as stated: for every sequence of endorsement strings, joining it with
\* the separator and splitting the result yields the original sequence, and
\* the empty sequence encodes to the empty string.
C10_AsStated ==
    /\ op = "decoded" => ret.dec = arg
    /\ (op \in {"encoded", "decoded"} /\ arg = <<>>) => ret.enc = EmptyStr

\* the places of str where the separator *|* occurs
Occurrences(str) ==
    {i \in 1..(Len(str) - 2) : SubSeq(str, i, i + 2) = <<"*", "|", "*">>}

RECURSIVE TotalLen(_)
TotalLen(list) == IF list = <<>> THEN 0 ELSE Len(Head(list)) + TotalLen(Tail(list))

\* the places of the joined text where the join put its n-1 separators
JoinPlaces(list) ==
    {TotalLen(SubSeq(list, 1, i)) + 3 * (i - 1) + 1 : i \in 1..(Len(list) - 1)}

\* C10 amended: for every non-empty sequence of endorsement strings in whose
\* joined text the separator *|* occurs only at the n-1 places where the join
\* put it, joining and then splitting yields the original sequence; the
\* empty sequence encodes to the empty string.
C10_RoundTrip ==
    /\ (/\ op = "decoded"
        /\ arg # <<>>
        /\ Occurrences(Join(arg, <<"*", "|", "*">>)) = JoinPlaces(arg))
            => ret.dec = arg
    /\ (op \in {"encoded", "decoded"} /\ arg = <<>>) => ret.enc = EmptyStr

\* the list A, B, the empty endorsement has been encoded as A*|*B*|* and
\* decoded again
C10_Witness ==
    /\ op = "decoded"
    /\ arg = <<(<<"A">>), (<<"B">>), EmptyStr>>
    /\ ret.enc = <<"A", "*", "|", "*", "B", "*", "|", "*">>
    /\ ret.dec = arg

----------------------------------------------------------------------------
(* sftpclient: the upload operations of the two snapshots of the client,   *)
(* sftpclient.go (organization name held by the client, no validation,     *)
(* serialization after the remote file is created) and unnamed/part_001    *)
(* (organization name passed to each call, validation and serialization    *)
(* before the transport).                                                  *)

\* most records of one upload call
MaxBatch == 3

\* most seconds that pass while the uploads are followed
MaxClock == 1

Orgs == {<<"a", "c", "m", "e">>, <<"o", "r", "c", "a">>}

Snapshots == {"sftpclient.go", "part_001"}

\* the file type of a record kind, the %s of fileTemplate (and the tag of
\* the per-kind templates of sftpclient.go)
FileType(kind) ==
    CASE kind = "Crew" ->
        <<"c", "r", "e", "w">>
      [] kind = "CrewCredential" ->
        <<"c", "r", "e", "d", "e", "n", "t", "i", "a", "l", "s">>
      [] kind = "Vessel" ->
        <<"v", "e", "s", "s", "e", "l", "s">>
      [] kind = "VesselSchedule" ->
        <<"v", "e", "s", "s", "e", "l", "s", "c", "h", "e", "d", "u", "l",
        "e", "s">>
      [] kind = "VesselSchedulePosition" ->
        <<"v", "e", "s", "s", "e", "l", "s", "c", "h", "e", "d", "u", "l",
        "e", "p", "o", "s", "i", "t", "i", "o", "n", "s">>
      [] kind = "CrewSchedule" ->
        <<"c", "r", "e", "w", "s", "c", "h", "e", "d", "u", "l", "e", "s">>
      [] kind = "CrewSchedulePosition" ->
        <<"c", "r", "e", "w", "s", "c", "h", "e", "d", "u", "l", "e", "p",
        "o", "s", "i", "t", "i", "o", "n", "s">>

Digits == <<"0", "1", "2", "3", "4", "5", "6", "7", "8", "9">>

\* %d of a number that is not negative
RECURSIVE Decimal(_)
Decimal(n) ==
    IF n < 10 THEN <<Digits[n + 1]>>
    ELSE Decimal(n \div 10) \o <<Digits[(n % 10) + 1]>>

\* time.Now().Unix() when the clock of the model is at 0
StartUnix == 1700000000

\* time.Now().Unix()
NowUnix == StartUnix + clock

\* the name without the file type
FileNameNoKind(orgName, kind, nowUnix) ==
    orgName \o <<"_">> \o Decimal(nowUnix) \o <<".", "c", "s", "v">>

\* fmt.Sprintf(fileTemplate, orgName, fileType, nowUnix): "%s_%s_%d.csv"
FileName(orgName, kind, nowUnix) ==
    orgName \o <<"_">> \o FileType(kind) \o <<"_">> \o Decimal(nowUnix)
        \o <<".", "c", "s", "v">>

\* fmt.Sprintf("./%s/%s", remoteDir, fileName), remoteDir = "./data"
Dest(fileName) == <<".", "/", ".", "/", "d", "a", "t", "a", "/">> \o fileName

\* errors: fmt.Errorf("<wrap>: %w", cause); the nil error has no cause
Errorf(wrap, cause) == [wrap |-> wrap, cause |-> cause]

NilError == Errorf(NoErr, NoErr)

\* the error of a failed transport or serialization step, opaque here
LibraryError == "library error"

InvalidDataPrefix(kind) ==
    CASE kind = "Crew" -> "invalid crew data"
      [] kind = "CrewCredential" -> "invalid crew credential data"
      [] kind = "Vessel" -> "invalid vessel data"
      [] kind = "VesselSchedule" -> "invalid vessel schedule data"
      [] kind = "VesselSchedulePosition" -> "invalid vessel position data"
      [] kind = "CrewSchedule" -> "invalid crew schedule data"
      [] kind = "CrewSchedulePosition" -> "invalid crew schedule position data"

MarshalPrefix(kind) ==
    CASE kind = "Crew" -> "failed to marshal crew"
      [] kind = "CrewCredential" -> "failed to marshal crew credentials"
      [] kind = "Vessel" -> "failed to marshal vessels"
      [] kind = "VesselSchedule" -> "failed to marshal vessel schedules"
      [] kind = "VesselSchedulePosition" -> "failed to marshal vessel positions"
      [] kind = "CrewSchedule" -> "failed to marshal crew schedules"
      [] kind = "CrewSchedulePosition" -> "failed to marshal crew schedule positions"

\* gocsv.MarshalBytes of a batch: the bytes stand for the batch they encode
MarshalBytes(kind, batch) == <<"csv", kind, batch>>

\* the record of a kind with every field set
FullRec == [kind \in UploadKinds |->
               CHOOSE r \in RecsOf(kind) : \A f \in DOMAIN r : r[f] # <<>>]

\* one required field of each kind besides the context id
OtherRequired(kind) ==
    CASE kind = "Crew" -> "LastName"
      [] kind = "CrewCredential" -> "Title"
      [] kind = "Vessel" -> "Name"
      [] kind = "VesselSchedule" -> "ServiceEndAt"
      [] kind = "VesselSchedulePosition" -> "CredentialTitle"
      [] kind = "CrewSchedule" -> "ServiceEndAt"
      [] kind = "CrewSchedulePosition" -> "CredentialTitle"

\* the records the batches are made of: one with every field set, one
\* without context id, one without another required field
BatchRecs(kind) ==
    {FullRec[kind],
     [FullRec[kind] EXCEPT !.ContextID = EmptyStr],
     [FullRec[kind] EXCEPT ![OtherRequired(kind)] = EmptyStr]}

Batches == [kind \in UploadKinds |-> SeqsUpTo(BatchRecs(kind), MaxBatch)]

\* the index of the last record that fails Validate
FirstInvalidFromEnd(kind, batch) ==
    LET bad == {i \in 1..Len(batch) : Validate(kind, Some(batch[i])) # NoErr}
    IN  IF bad = {} THEN 0 ELSE CHOOSE i \in bad : \A j \in bad : i >= j

\* for _, c := range batch { if err := c.Validate(); err != nil { return } }:
\* the index of the record whose Validate error ends the loop, 0 when none
FirstInvalid(kind, batch) ==
    LET bad == {i \in 1..Len(batch) : Validate(kind, Some(batch[i])) # NoErr}
    IN  IF bad = {} THEN 0 ELSE CHOOSE i \in bad : \A j \in bad : i <= j

\* n calls of Validate
Validations(n) == [i \in 1..n |-> "validate"]

\* a call in progress at step pc
InCall(pc, kind, orgName, batch, fileName, data, trace) ==
    [pc |-> pc, kind |-> kind, orgName |-> orgName, batch |-> batch,
     fileName |-> fileName, data |-> data, err |-> NilError, trace |-> trace,
     open |-> <<>>]

\* the deferred Close calls, last opened first
RECURSIVE Deferred(_)
Deferred(open) ==
    IF open = <<>> THEN <<>>
    ELSE <<"close " \o open[Len(open)]>> \o Deferred(SubSeq(open, 1, Len(open) - 1))

\* return err from the call c: the deferred closes run, nothing stays open
Return(c, err) ==
    [c EXCEPT !.pc = "returned", !.err = err,
              !.trace = @ \o Deferred(c.open), !.open = <<>>]

IsEmptyBatchNever(batch) == FALSE

\* len(crew) == 0
IsEmptyBatch(batch) == Len(batch) = 0

\* part_001, Upload<Kind>File up to the call of uploadData
UploadFileEntry(kind, orgName, batch, nowUnix, marshalOk) ==
    LET start == InCall("dial", kind, orgName, batch, EmptyStr, <<>>, <<>>)
        bad == FirstInvalid(kind, batch)
    IN  IF IsEmptyBatch(batch) THEN Return(start, NilError)
        ELSE IF bad # 0
        THEN Return([start EXCEPT !.trace = Validations(bad)],
                    Errorf(InvalidDataPrefix(kind), Validate(kind, Some(batch[bad]))))
        ELSE LET named == [start EXCEPT
                              !.trace = Append(Validations(Len(batch)), "marshal"),
                              !.fileName = FileName(orgName, kind, nowUnix)]
             IN  IF ~marshalOk
                 THEN Return(named, Errorf(MarshalPrefix(kind), LibraryError))
                 ELSE [named EXCEPT !.data = MarshalBytes(kind, batch)]

\* sftpclient.go, Upload<Kind>s up to the call of uploadData
UploadEntry(kind, orgName, batch, nowUnix) ==
    LET start == InCall("dial", kind, orgName, batch, EmptyStr, <<>>, <<>>)
    IN  IF IsEmptyBatch(batch) THEN Return(start, NilError)
        ELSE [start EXCEPT !.fileName = FileName(orgName, kind, nowUnix)]

\* a behaviour follows one upload call, from its start to its return
CanCall == call.pc = "idle"

pure_vars == <<op, arg, ret>>

\* the state of the concurrent uploads, unused while one call is followed
conc_vars == <<calls, sessions>>

UploadFile(kind) ==
    /\ client.snapshot = "part_001"
    /\ CanCall
    /\ ncalls' = ncalls + 1
    /\ \E orgName \in Orgs, batch \in Batches[kind], marshalOk \in BOOLEAN :
          call' = UploadFileEntry(kind, orgName, batch, NowUnix, marshalOk)
    /\ UNCHANGED <<client, clock, remote, pure_vars, conc_vars>>

Upload(kind) ==
    /\ client.snapshot = "sftpclient.go"
    /\ CanCall
    /\ ncalls' = ncalls + 1
    /\ \E batch \in Batches[kind] :
          call' = UploadEntry(kind, client.orgName, batch, NowUnix)
    /\ UNCHANGED <<client, clock, remote, pure_vars, conc_vars>>

UploadCrewFile == UploadFile("Crew")

UploadCrewCredentialFile == UploadFile("CrewCredential")

UploadVesselFile == UploadFile("Vessel")

UploadVesselScheduleFile == UploadFile("VesselSchedule")

UploadVesselSchedulePositionFile == UploadFile("VesselSchedulePosition")

UploadCrewScheduleFile == UploadFile("CrewSchedule")

UploadCrewSchedulePositionFile == UploadFile("CrewSchedulePosition")

UploadCrew == Upload("Crew")

UploadCrewCredentials == Upload("CrewCredential")

UploadVessels == Upload("Vessel")

UploadVesselSchedules == Upload("VesselSchedule")

UploadVesselSchedulePositions == Upload("VesselSchedulePosition")

UploadCrewSchedules == Upload("CrewSchedule")

UploadCrewSchedulePositions == Upload("CrewSchedulePosition")

(* uploadData, one action per transport step; each step succeeds or fails *)
(* as the transport decides.                                               *)

\* ssh.Dial, tried a second time when it fails
DialWithRetry ==
    /\ call.pc = "dial"
    /\ \E ok \in BOOLEAN :
          LET c == [call EXCEPT !.trace = Append(@, "dial")]
          IN  call' = IF ok
                      THEN [c EXCEPT !.pc = "newclient", !.open = Append(@, "conn")]
                      ELSE IF Len(SelectSeq(c.trace, LAMBDA e : e = "dial")) < 2
                      THEN c
                      ELSE Return(c, Errorf("failed to dial SFTP server", LibraryError))
    /\ UNCHANGED <<client, clock, remote, ncalls, pure_vars, conc_vars>>

\* ssh.Dial
Dial ==
    /\ call.pc = "dial"
    /\ \E ok \in BOOLEAN :
          LET c == [call EXCEPT !.trace = Append(@, "dial")]
          IN  call' = IF ok
                      THEN [c EXCEPT !.pc = "newclient", !.open = Append(@, "conn")]
                      ELSE Return(c, Errorf("failed to dial SFTP server", LibraryError))
    /\ UNCHANGED <<client, clock, remote, ncalls, pure_vars, conc_vars>>

\* sftp.NewClient
NewClient ==
    /\ call.pc = "newclient"
    /\ \E ok \in BOOLEAN :
          LET c == [call EXCEPT !.trace = Append(@, "newclient")]
          IN  call' = IF ok
                      THEN [c EXCEPT !.pc = "create", !.open = Append(@, "client")]
                      ELSE Return(c, Errorf("failed to create SFTP client", LibraryError))
    /\ UNCHANGED <<client, clock, remote, ncalls, pure_vars, conc_vars>>

\* sc.Create: the file at the path is created, or truncated
Create ==
    /\ call.pc = "create"
    /\ \E ok \in BOOLEAN :
          LET c == [call EXCEPT !.trace = Append(@, "create")]
          IN  IF ok
              THEN /\ call' = [c EXCEPT
                                 !.pc = IF client.snapshot = "sftpclient.go"
                                        THEN "marshal" ELSE "write",
                                 !.open = Append(@, "file")]
                   /\ remote' = (Dest(call.fileName) :>
                                    [writer |-> ncalls, state |-> "empty"]) @@ remote
              ELSE /\ call' = Return(c, Errorf("failed to create remote file", LibraryError))
                   /\ UNCHANGED remote
    /\ UNCHANGED <<client, clock, ncalls, pure_vars, conc_vars>>

\* sftpclient.go only: gocsv.MarshalBytes(&data), after the file is created
MarshalData ==
    /\ call.pc = "marshal"
    /\ \E ok \in BOOLEAN :
          LET c == [call EXCEPT !.trace = Append(@, "marshal")]
          IN  call' = IF ok
                      THEN [c EXCEPT !.pc = "write",
                                     !.data = MarshalBytes(call.kind, call.batch)]
                      ELSE Return(c, Errorf("failed to marshal data", LibraryError))
    /\ UNCHANGED <<client, clock, remote, ncalls, pure_vars, conc_vars>>

\* io.Copy(destFile, bytes.NewReader(data)), then return nil; a failed copy
\* leaves the file empty or partly written
Write ==
    /\ call.pc = "write"
    /\ \E state \in {"complete", "partial", "empty"} :
          LET c == [call EXCEPT !.trace = Append(@, "write")]
          IN  /\ call' = IF state = "complete"
                         THEN Return(c, NilError)
                         ELSE Return(c, Errorf("failed to copy data to remote file",
                                               LibraryError))
              /\ remote' = [remote EXCEPT ![Dest(call.fileName)].state = state]
    /\ UNCHANGED <<client, clock, ncalls, pure_vars, conc_vars>>

\* time passes
Tick ==
    /\ clock < MaxClock
    /\ clock' = clock + 1
    /\ UNCHANGED <<client, remote, ncalls, call, pure_vars, conc_vars>>

Init ==
    /\ op = "none"
    /\ arg = <<>>
    /\ ret = Pending
    /\ client \in [snapshot : {"part_001"}, orgName : {EmptyStr}]
                    \cup [snapshot : {"sftpclient.go"}, orgName : Orgs]
    /\ clock = 0
    /\ remote = <<>>
    /\ ncalls = 0
    /\ call = NoCall
    /\ calls = <<>>
    /\ sessions = <<>>

Next ==
    \/ UploadCrewFile
    \/ UploadCrewCredentialFile
    \/ UploadVesselFile
    \/ UploadVesselScheduleFile
    \/ UploadVesselSchedulePositionFile
    \/ UploadCrewScheduleFile
    \/ UploadCrewSchedulePositionFile
    \/ UploadCrew
    \/ UploadCrewCredentials
    \/ UploadVessels
    \/ UploadVesselSchedules
    \/ UploadVesselSchedulePositions
    \/ UploadCrewSchedules
    \/ UploadCrewSchedulePositions
    \/ Dial
    \/ NewClient
    \/ Create
    \/ MarshalData
    \/ Write
    \/ Tick

Spec == Init /\ [][Next]_vars

----------------------------------------------------------------------------
(* Claims about the upload operations (Spec).                              *)

Called == call.pc # "idle"

Returned == call.pc = "returned"

\* the calls of the transport collaborator made so far by the call
TransportCalls == SelectSeq(call.trace, LAMBDA e : e \notin {"validate", "marshal"})

HasInvalid(kind, batch) ==
    \E i \in 1..Len(batch) : Validate(kind, Some(batch[i])) # NoErr

IsValidationError(err) ==
    /\ err.wrap = InvalidDataPrefix(call.kind)
    /\ err.cause \notin {NoErr, LibraryError}

\* C3 as stated: for every upload operation of the client and every
\* non-empty batch with at least one record failing Validate, the upload
\* returns a validation error and never invokes the transport (no dial, no
\* remote file create, no write), wherever the invalid record is.
C3_InvalidBatchRejected ==
    (Called /\ HasInvalid(call.kind, call.batch)) =>
        /\ TransportCalls = <<>>
        /\ remote = <<>>
        /\ Returned => IsValidationError(call.err)

\* UploadCrewFile of part_001 has rejected a batch of three whose second
\* record is the invalid one, without a transport call
C3_Witness ==
    /\ client.snapshot = "part_001"
    /\ Returned
    /\ call.kind = "Crew"
    /\ Len(call.batch) = 3
    /\ FirstInvalid("Crew", call.batch) = 2
    /\ ~HasInvalid("Crew", <<call.batch[3]>>)
    /\ call.err = Errorf("invalid crew data", "missing last name")
    /\ TransportCalls = <<>>

\* C4: for every upload operation, a call with zero records returns success
\* and performs no validation, no serialization and no transport step, and
\* no remote file is created.
C4_EmptyBatchNoOp ==
    (Called /\ call.batch = <<>>) =>
        /\ Returned
        /\ call.err = NilError
        /\ call.trace = <<>>
        /\ call.fileName = EmptyStr
        /\ call.data = <<>>
        /\ remote = <<>>

\* UploadVesselSchedulePositions of sftpclient.go has returned from a call
\* with zero records
C4_Witness ==
    /\ client.snapshot = "sftpclient.go"
    /\ Returned
    /\ call.kind = "VesselSchedulePosition"
    /\ call.batch = <<>>
    /\ call.err = NilError


\* the tags of the record kinds as the specification lists them
Tag ==
    [kind \in UploadKinds |->
        CASE kind = "Crew" -> <<"c", "r", "e", "w">>
          [] kind = "CrewCredential" ->
                <<"c", "r", "e", "d", "e", "n", "t", "i", "a", "l", "s">>
          [] kind = "Vessel" -> <<"v", "e", "s", "s", "e", "l", "s">>
          [] kind = "VesselSchedule" ->
                <<"v", "e", "s", "s", "e", "l">> \o
                <<"s", "c", "h", "e", "d", "u", "l", "e", "s">>
          [] kind = "VesselSchedulePosition" ->
                <<"v", "e", "s", "s", "e", "l">> \o
                <<"s", "c", "h", "e", "d", "u", "l", "e">> \o
                <<"p", "o", "s", "i", "t", "i", "o", "n", "s">>
          [] kind = "CrewSchedule" ->
                <<"c", "r", "e", "w">> \o
                <<"s", "c", "h", "e", "d", "u", "l", "e", "s">>
          [] kind = "CrewSchedulePosition" ->
                <<"c", "r", "e", "w">> \o
                <<"s", "c", "h", "e", "d", "u", "l", "e">> \o
                <<"p", "o", "s", "i", "t", "i", "o", "n", "s">>]

DigitValue(ch) == CHOOSE d \in 0..9 : Digits[d + 1] = ch

\* the number a string of decimal digits denotes
RECURSIVE DecimalValue(_)
DecimalValue(str) ==
    IF str = <<>> THEN 0
    ELSE 10 * DecimalValue(SubSeq(str, 1, Len(str) - 1)) + DigitValue(str[Len(str)])

\* str is the decimal numeral of n: digits only, no leading zero
IsDecimalOf(str, n) ==
    /\ Len(str) >= 1
    /\ \A i \in 1..Len(str) : \E d \in 1..10 : Digits[d] = str[i]
    /\ Len(str) > 1 => str[1] # "0"
    /\ DecimalValue(str) = n

\* name is {orgName}_{tag of kind}_{unixSeconds}.csv
NamedAs(name, orgName, kind, unixSeconds) ==
    LET prefix == orgName \o <<"_">> \o Tag[kind] \o <<"_">>
        suffix == <<".", "c", "s", "v">>
        number == SubSeq(name, Len(prefix) + 1, Len(name) - Len(suffix))
    IN  /\ name = prefix \o number \o suffix
        /\ IsDecimalOf(number, unixSeconds)

\* the call c constructs a name: its batch is not empty and, where the
\* operation validates, every record is valid
ReachesNaming(c) ==
    /\ c.pc # "idle"
    /\ c.batch # <<>>
    /\ client.snapshot = "part_001" => ~HasInvalid(c.kind, c.batch)

\* C11: for every upload operation that reaches name construction, the remote
\* file name is exactly {orgIdentifier}_{tag}_{unixSeconds}.csv, with the
\* seconds of the clock at the call and the fixed tag of the record kind; the
\* name is kept for the rest of the call; no two record kinds share a tag.
C11_FileName ==
    [][/\ (call.pc = "idle" /\ ReachesNaming(call'))
            => NamedAs(call'.fileName, call'.orgName, call'.kind, StartUnix + clock)
       /\ (call.pc # "idle" /\ call'.pc # "idle")
            => call'.fileName = call.fileName
       /\ \A k1, k2 \in UploadKinds :
            k1 # k2 => FileType(k1) # FileType(k2)]_vars

\* UploadVesselSchedulePositionFile of part_001, called one second after the
\* start for the organization orca, has named its file
\* orca_vesselschedulepositions_1700000001.csv and uploaded it
C11_Witness ==
    /\ client.snapshot = "part_001"
    /\ Returned
    /\ call.err = NilError
    /\ call.kind = "VesselSchedulePosition"
    /\ call.fileName =
          <<"o", "r", "c", "a", "_">> \o
          <<"v", "e", "s", "s", "e", "l", "s", "c", "h", "e", "d", "u", "l", "e">> \o
          <<"p", "o", "s", "i", "t", "i", "o", "n", "s", "_">> \o
          <<"1", "7", "0", "0", "0", "0", "0", "0", "0", "1">> \o
          <<".", "c", "s", "v">>
    /\ Dest(call.fileName) \in DOMAIN remote


\* the stages of the transport, in the order of uploadData
Stages == <<"dial", "newclient", "create", "write">>

\* the context each stage wraps its failure with
StageError(stage) ==
    CASE stage = "dial" -> "failed to dial SFTP server"
      [] stage = "newclient" -> "failed to create SFTP client"
      [] stage = "create" -> "failed to create remote file"
      [] stage = "write" -> "failed to copy data to remote file"

\* the stages the call has attempted, in the order of the attempts
Attempted ==
    SelectSeq(call.trace,
              LAMBDA e : e \in {"dial", "newclient", "create", "write"})

LastAttempted == Attempted[Len(Attempted)]

IsTransportError(err) ==
    \E i \in 1..Len(Stages) : err = Errorf(StageError(Stages[i]), LibraryError)

\* C16: a transport failure is reported immediately and is stage-specific:
\* the stages are attempted in order and none more than once (no retry); an
\* upload that returns a transport error returns the error of the last stage
\* it attempted; an upload that returns after attempting a stage returns the
\* error of that stage unless it attempted all four stages and succeeded (or,
\* in sftpclient.go, could not serialize the batch after the create).
C16_StageError ==
    Called =>
        /\ Attempted = SubSeq(Stages, 1, Len(Attempted))
        /\ (Returned /\ IsTransportError(call.err)) =>
              /\ Attempted # <<>>
              /\ call.err.wrap = StageError(LastAttempted)
        /\ (Returned /\ Attempted # <<>>) =>
              \/ call.err = Errorf(StageError(LastAttempted), LibraryError)
              \/ call.err = NilError /\ Attempted = Stages
              \/ /\ client.snapshot = "sftpclient.go"
                 /\ call.err = Errorf("failed to marshal data", LibraryError)
                 /\ LastAttempted = "create"
        /\ (Returned /\ call.err = NilError /\ call.batch # <<>>) => Attempted = Stages

\* an upload of part_001 whose remote file could not be created has returned
\* the error of the create stage without a write
C16_Witness ==
    /\ client.snapshot = "part_001"
    /\ Returned
    /\ call.err = Errorf("failed to create remote file", LibraryError)
    /\ Attempted = <<"dial", "newclient", "create">>
    /\ call.trace = <<"validate", "validate", "marshal", "dial", "newclient",
                      "create", "close client", "close conn">>
    /\ remote = <<>>


----------------------------------------------------------------------------
(* Specification SpecConcurrent: the goroutines of a caller each make one  *)
(* upload call on the same client, one after the other or interleaved.     *)
(* A call keeps what ssh.Dial, sftp.NewClient and sc.Create return in its  *)
(* local variables conn, sc and destFile; the sessions record, for every   *)
(* connection, client and file the transport handed out, which goroutine   *)
(* opened it, which used it and which closed it.                           *)

Goroutines == {"g1", "g2"}

\* the kinds the goroutines upload
ConcurrentKinds == {"Crew", "Vessel"}

NoCalls == [g \in Goroutines |-> NoCall]

\* the locals of uploadData before they are assigned
NoLocals == [conn |-> 0, sc |-> 0, destFile |-> 0]

\* what the transport hands out: a connection, a client or a file
Session(res, g) ==
    [res |-> res, opener |-> g, open |-> TRUE, users |-> {}, closers |-> {}]

\* goroutine g passes the sessions ids to the transport
Use(ss, ids, g) ==
    [i \in 1..Len(ss) |->
        IF i \in ids THEN [ss[i] EXCEPT !.users = @ \cup {g}] ELSE ss[i]]

\* goroutine g calls Close on the sessions ids
Close(ss, ids, g) ==
    [i \in 1..Len(ss) |->
        IF i \in ids
        THEN [ss[i] EXCEPT !.open = FALSE, !.closers = @ \cup {g}]
        ELSE ss[i]]

\* the remote file is left to the garbage collector
HeldButFile(c) == {c.conn, c.sc} \ {0}

\* every session is closed by whoever returns
HeldByAnyCall(c) == 1..Len(sessions)

\* the sessions the deferred functions of the call c close: the values of
\* its locals conn, sc and destFile
Held(c) == {c.conn, c.sc, c.destFile} \ {0}

\* the call c of goroutine g returns err; ss are the sessions at the return
GoReturn(g, c, err, ss) ==
    /\ calls' = [calls EXCEPT ![g] = Return(c, err)]
    /\ sessions' = Close(ss, Held(c), g)

\* an upload operation up to its call of uploadData, with a batch of one
\* valid record
GoUpload(g) ==
    /\ calls[g].pc = "idle"
    /\ \E kind \in ConcurrentKinds, orgName \in Orgs :
          LET batch == <<FullRec[kind]>>
              c == IF client.snapshot = "part_001"
                   THEN UploadFileEntry(kind, orgName, batch, NowUnix, TRUE)
                   ELSE UploadEntry(kind, client.orgName, batch, NowUnix)
          IN  calls' = [calls EXCEPT ![g] = c @@ NoLocals]
    /\ UNCHANGED <<client, clock, remote, ncalls, call, sessions, pure_vars>>

\* conn, err := ssh.Dial("tcp", s.addr, &s.config)
GoDial(g) ==
    /\ calls[g].pc = "dial"
    /\ \E ok \in BOOLEAN :
          LET c == [calls[g] EXCEPT !.trace = Append(@, "dial")]
          IN  IF ok
              THEN /\ sessions' = Append(sessions, Session("conn", g))
                   /\ calls' = [calls EXCEPT ![g] =
                                   [c EXCEPT !.pc = "newclient",
                                             !.open = Append(@, "conn"),
                                             !.conn = Len(sessions) + 1]]
              ELSE GoReturn(g, c, Errorf("failed to dial SFTP server", LibraryError),
                            sessions)
    /\ UNCHANGED <<client, clock, remote, ncalls, call, pure_vars>>

\* sc, err := sftp.NewClient(conn)
GoNewClient(g) ==
    /\ calls[g].pc = "newclient"
    /\ \E ok \in BOOLEAN :
          LET c == [calls[g] EXCEPT !.trace = Append(@, "newclient")]
              used == Use(sessions, {c.conn}, g)
          IN  IF ok
              THEN /\ sessions' = Append(used, Session("client", g))
                   /\ calls' = [calls EXCEPT ![g] =
                                   [c EXCEPT !.pc = "create",
                                             !.open = Append(@, "client"),
                                             !.sc = Len(sessions) + 1]]
              ELSE GoReturn(g, c, Errorf("failed to create SFTP client", LibraryError),
                            used)
    /\ UNCHANGED <<client, clock, remote, ncalls, call, pure_vars>>

\* destFile, err := sc.Create(dest): the file at the path is created, or
\* truncated
GoCreate(g) ==
    /\ calls[g].pc = "create"
    /\ \E ok \in BOOLEAN :
          LET c == [calls[g] EXCEPT !.trace = Append(@, "create")]
              used == Use(sessions, {c.sc}, g)
          IN  IF ok
              THEN /\ sessions' = Append(used, Session("file", g))
                   /\ calls' = [calls EXCEPT ![g] =
                                   [c EXCEPT !.pc = IF client.snapshot = "sftpclient.go"
                                                    THEN "marshal" ELSE "write",
                                             !.open = Append(@, "file"),
                                             !.destFile = Len(sessions) + 1]]
                   /\ remote' = (Dest(c.fileName) :>
                                    [writer |-> g, state |-> "empty"]) @@ remote
              ELSE /\ GoReturn(g, c, Errorf("failed to create remote file", LibraryError),
                               used)
                   /\ UNCHANGED remote
    /\ UNCHANGED <<client, clock, ncalls, call, pure_vars>>

\* sftpclient.go only: gocsv.MarshalBytes(&data), after the file is created
GoMarshalData(g) ==
    /\ calls[g].pc = "marshal"
    /\ \E ok \in BOOLEAN :
          LET c == [calls[g] EXCEPT !.trace = Append(@, "marshal")]
          IN  IF ok
              THEN /\ calls' = [calls EXCEPT ![g] =
                                   [c EXCEPT !.pc = "write",
                                             !.data = MarshalBytes(c.kind, c.batch)]]
                   /\ UNCHANGED sessions
              ELSE GoReturn(g, c, Errorf("failed to marshal data", LibraryError),
                            sessions)
    /\ UNCHANGED <<client, clock, remote, ncalls, call, pure_vars>>

\* io.Copy(destFile, bytes.NewReader(data)), then return nil
GoWrite(g) ==
    /\ calls[g].pc = "write"
    /\ \E state \in {"complete", "partial", "empty"} :
          LET c == [calls[g] EXCEPT !.trace = Append(@, "write")]
              used == Use(sessions, {c.destFile}, g)
          IN  /\ GoReturn(g, c,
                          IF state = "complete" THEN NilError
                          ELSE Errorf("failed to copy data to remote file", LibraryError),
                          used)
              /\ remote' = [remote EXCEPT ![Dest(c.fileName)] =
                               [writer |-> g, state |-> state]]
    /\ UNCHANGED <<client, clock, ncalls, call, pure_vars>>

InitConcurrent ==
    /\ op = "none"
    /\ arg = <<>>
    /\ ret = Pending
    /\ client \in [snapshot : {"part_001"}, orgName : {EmptyStr}]
                    \cup [snapshot : {"sftpclient.go"}, orgName : Orgs]
    /\ clock = 0
    /\ remote = <<>>
    /\ ncalls = 0
    /\ call = NoCall
    /\ calls = NoCalls
    /\ sessions = <<>>

NextConcurrent ==
    \/ \E g \in Goroutines : GoUpload(g)
    \/ \E g \in Goroutines : GoDial(g)
    \/ \E g \in Goroutines : GoNewClient(g)
    \/ \E g \in Goroutines : GoCreate(g)
    \/ \E g \in Goroutines : GoMarshalData(g)
    \/ \E g \in Goroutines : GoWrite(g)
    \/ Tick

SpecConcurrent == InitConcurrent /\ [][NextConcurrent]_vars

----------------------------------------------------------------------------
(* Claims about successive and concurrent upload calls (SpecConcurrent).   *)

\* the call c has constructed its file name
Named(c) == c.pc # "idle" /\ c.fileName # EmptyStr

\* C12 as stated: for any two upload calls of the same record kind and the
\* same organization identifier that both reach name construction, the second
\* starting after the first has returned, the two constructed remote file
\* names differ (so the second upload writes another file than the first).
C12_NoCollision ==
    [][\A g, h \in Goroutines :
          (/\ g # h
           /\ calls[h].pc = "returned"
           /\ Named(calls[h])
           /\ calls[g].pc = "idle"
           /\ Named(calls'[g])
           /\ calls'[g].kind = calls[h].kind
           /\ calls'[g].orgName = calls[h].orgName)
              => calls'[g].fileName # calls[h].fileName]_vars

\* two successive uploads of crew for the same organization, the second a
\* second later than the first, have written two files
C12_Witness ==
    LET first == calls["g1"]
        second == calls["g2"]
    IN  /\ first.pc = "returned" /\ second.pc = "returned"
        /\ first.err = NilError /\ second.err = NilError
        /\ first.kind = "Crew" /\ second.kind = "Crew"
        /\ first.orgName = second.orgName
        /\ first.conn = 1 /\ first.destFile = 3 /\ second.conn = 4
        /\ NamedAs(first.fileName, first.orgName, "Crew", StartUnix)
        /\ NamedAs(second.fileName, first.orgName, "Crew", StartUnix + 1)
        /\ remote[Dest(first.fileName)] = [writer |-> "g1", state |-> "complete"]
        /\ remote[Dest(second.fileName)] = [writer |-> "g2", state |-> "complete"]

----------------------------------------------------------------------------
(* unnamed/part_000: the Validate methods of the earlier snapshot of the   *)
(* record model.  Its records have no context id and no external id; four  *)
(* methods read the fields of the receiver without a nil check, which       *)
(* panics on a nil receiver; VesselSchedulePosition accepts a nil receiver. *)

Part000CrewValidate(c) ==
    IF IsNil(c) THEN Panics
    ELSE IF Len(Deref(c).CrewExternalID) = 0 THEN Returns("missing crew external ID")
    ELSE IF Len(Deref(c).FirstName) = 0 THEN Returns("missing first name")
    ELSE IF Len(Deref(c).LastName) = 0 THEN Returns("missing last name")
    ELSE Returns(NoErr)

Part000CrewCredentialValidate(cc) ==
    IF IsNil(cc) THEN Panics
    ELSE IF Len(Deref(cc).CrewExternalID) = 0 THEN Returns("missing crew external id")
    ELSE IF Len(Deref(cc).Title) = 0 THEN Returns("missing title")
    ELSE Returns(NoErr)

Part000VesselValidate(v) ==
    IF IsNil(v) THEN Panics
    ELSE IF Len(Deref(v).VesselExternalID) = 0 THEN Returns("missing vessel external id")
    ELSE IF Len(Deref(v).Name) = 0 THEN Returns("missing vessel name")
    ELSE Returns(NoErr)

Part000VesselScheduleValidate(vs) ==
    IF IsNil(vs) THEN Panics
    ELSE IF Len(Deref(vs).VesselName) = 0 THEN Returns("missing vessel name")
    ELSE IF Len(Deref(vs).VesselExternalID) = 0 THEN Returns("missing vessel external id")
    ELSE IF Len(Deref(vs).ServiceStartAt) = 0 THEN Returns("missing service start at")
    ELSE IF Len(Deref(vs).ServiceEndAt) = 0 THEN Returns("missing service ended at")
    ELSE Returns(NoErr)

Part000VesselSchedulePositionValidate(vp) ==
    IF IsNil(vp) THEN Returns(NoErr)
    ELSE IF Len(Deref(vp).VesselExternalID) = 0 THEN Returns("missing vessel external id")
    ELSE IF Len(Deref(vp).Position) = 0 THEN Returns("missing position")
    ELSE IF Len(Deref(vp).CredentialTitle) = 0
    THEN Returns("missing position credential title")
    ELSE Returns(NoErr)

Part000CrewScheduleValidate(vs) ==
    IF IsNil(vs) THEN Returns("missing crew schedule")
    ELSE IF Len(Deref(vs).VesselExternalID) = 0 THEN Returns("missing vessel external id")
    ELSE IF Len(Deref(vs).CrewExternalID) = 0 THEN Returns("missing crew external id")
    ELSE IF Len(Deref(vs).VesselName) = 0 THEN Returns("missing vessel name")
    ELSE IF Len(Deref(vs).ServiceStartAt) = 0 THEN Returns("missing service started at")
    ELSE IF Len(Deref(vs).ServiceEndAt) = 0 THEN Returns("missing service ended at")
    ELSE Returns(NoErr)

Part000CrewSchedulePositionValidate(vs) ==
    IF IsNil(vs) THEN Returns("missing crew schedule position")
    ELSE IF Len(Deref(vs).VesselExternalID) = 0 THEN Returns("missing vessel external id")
    ELSE IF Len(Deref(vs).CrewExternalID) = 0 THEN Returns("missing crew external id")
    ELSE IF Len(Deref(vs).Position) = 0 THEN Returns("missing position")
    ELSE IF Len(Deref(vs).CredentialTitle) = 0 THEN Returns("missing credential")
    ELSE Returns(NoErr)

Part000Validate(kind, p) ==
    CASE kind = "Crew" -> Part000CrewValidate(p)
      [] kind = "CrewCredential" -> Part000CrewCredentialValidate(p)
      [] kind = "Vessel" -> Part000VesselValidate(p)
      [] kind = "VesselSchedule" -> Part000VesselScheduleValidate(p)
      [] kind = "VesselSchedulePosition" -> Part000VesselSchedulePositionValidate(p)
      [] kind = "CrewSchedule" -> Part000CrewScheduleValidate(p)
      [] kind = "CrewSchedulePosition" -> Part000CrewSchedulePositionValidate(p)

\* the records of unnamed/part_000: those of models/models.go without the
\* context id and the external id
Part000RecsOf(kind) ==
    {[f \in (DOMAIN r) \ {"ContextID", "ExternalID"} |-> r[f]] : r \in RecsOf(kind)}

----------------------------------------------------------------------------
(* Specification SpecReceiver: Validate of either snapshot of the record   *)
(* model applied to a pointer to a record, nil or not.                     *)

InitReceiver ==
    /\ op = "none"
    /\ \/ \E kind \in Kinds :
             arg \in [snapshot : {"models.go"}, kind : {kind},
                      ptr : OptOf(RecsOf(kind))]
       \/ \E kind \in UploadKinds :
             arg \in [snapshot : {"part_000"}, kind : {kind},
                      ptr : OptOf(Part000RecsOf(kind))]
    /\ ret = Pending
    /\ NoUpload

\* models/models.go
ModelsValidateCall ==
    /\ op = "none"
    /\ arg.snapshot = "models.go"
    /\ op' = "Validate"
    /\ ret' = Returns(Validate(arg.kind, arg.ptr))
    /\ UNCHANGED <<arg, upload_vars>>

\* unnamed/part_000
Part000ValidateCall ==
    /\ op = "none"
    /\ arg.snapshot = "part_000"
    /\ op' = "Validate"
    /\ ret' = Part000Validate(arg.kind, arg.ptr)
    /\ UNCHANGED <<arg, upload_vars>>

NextReceiver == ModelsValidateCall \/ Part000ValidateCall

SpecReceiver == InitReceiver /\ [][NextReceiver]_vars

----------------------------------------------------------------------------
(* Claims about Validate on a nil record (SpecReceiver).                   *)

\* C14 as stated: for every record kind, Validate on a nil record returns an
\* error: it neither returns success nor panics.
C14_NilRejected ==
    (op = "Validate" /\ IsNil(arg.ptr)) => (~ret.panic /\ ret.v # NoErr)

\* Validate of models/models.go on a nil CrewSeatime has returned its error
C14_Witness ==
    /\ op = "Validate"
    /\ arg.snapshot = "models.go"
    /\ arg.kind = "CrewSeatime"
    /\ IsNil(arg.ptr)
    /\ ret = Returns("missing crew credential")

\* the sessions goroutine g opened
OpenedBy(g) == {i \in 1..Len(sessions) : sessions[i].opener = g}

InTrace(c, step) == \E i \in 1..Len(c.trace) : c.trace[i] = step

\* the call went from one step on to another
WentOn(c, step, next) ==
    \E i, j \in 1..Len(c.trace) :
        i < j /\ c.trace[i] = step /\ c.trace[j] = next

\* what the call c opened, told from the stages it went on to: a stage is
\* attempted only when the one before it succeeded
OpenedResources(c) ==
    {res \in {"conn", "client", "file"} :
        \/ res = "conn" /\ WentOn(c, "dial", "newclient")
        \/ res = "client" /\ WentOn(c, "newclient", "create")
        \/ res = "file" /\ WentOn(c, "create", "write")
        \/ res = "file" /\ WentOn(c, "create", "marshal")}

\* C15: every upload call that opens a transport session closes it before
\* returning, on every path: whichever of dial, SFTP client creation, remote
\* file create or write fails or succeeds, every resource the call opened
\* (connection, client, remote file) has been closed, by the call itself,
\* when the call has returned, and the call holds nothing open.
C15_SessionClosed ==
    \A g \in Goroutines :
        calls[g].pc = "returned" =>
            /\ {sessions[i].res : i \in OpenedBy(g)} = OpenedResources(calls[g])
            /\ Cardinality(OpenedBy(g)) = Cardinality(OpenedResources(calls[g]))
            /\ \A i \in OpenedBy(g) :
                  ~sessions[i].open /\ sessions[i].closers = {g}
            /\ calls[g].open = <<>>

\* a call of sftpclient.go whose write failed has returned with its
\* connection, client and file closed, while the other goroutine holds an
\* open connection
C15_Witness ==
    /\ client.snapshot = "sftpclient.go"
    /\ calls["g2"].pc = "returned"
    /\ calls["g2"].err = Errorf("failed to copy data to remote file", LibraryError)
    /\ Cardinality(OpenedBy("g2")) = 3
    /\ \A i \in OpenedBy("g2") : ~sessions[i].open
    /\ calls["g1"].pc = "newclient"
    /\ sessions[calls["g1"].conn].open

\* the sessions the locals conn, sc and destFile of the call c refer to
Locals(c) == IF c.pc = "idle" THEN {} ELSE {c.conn, c.sc, c.destFile} \ {0}

\* every session is used and closed by the goroutine that opened it only,
\* the locals of a call refer to sessions the call opened itself, and no
\* two calls refer to the same session
OwnSessions ==
    /\ \A i \in 1..Len(sessions) :
          /\ sessions[i].users \subseteq {sessions[i].opener}
          /\ sessions[i].closers \subseteq {sessions[i].opener}
    /\ \A g \in Goroutines : Locals(calls[g]) \subseteq OpenedBy(g)
    /\ \A g, h \in Goroutines : g # h => Locals(calls[g]) \cap Locals(calls[h]) = {}

\* a call that dials gets a session of its own: one that did not exist before
FreshSession ==
    \A g \in Goroutines :
        (calls[g].pc = "dial" /\ calls'[g].pc = "newclient")
            => /\ calls'[g].conn = Len(sessions) + 1
               /\ Len(sessions') = Len(sessions) + 1
               /\ sessions'[calls'[g].conn].opener = g

\* C17: when several upload calls run concurrently on one client, each call
\* dials and uses its own transport session and never uses or closes a
\* session another call opened, and no step of an upload call writes the
\* fields of the client, in any interleaving.
C17_OwnSession ==
    [][/\ OwnSessions'
       /\ FreshSession
       /\ client' = client]_vars

\* the two goroutines dialled one after the other, the first created its
\* SFTP client, then the second failed to create its own and returned:
\* its connection is closed, the connection and client of the first are open
C17_Witness ==
    /\ Len(sessions) = 3
    /\ sessions[1].opener = "g1" /\ sessions[2].opener = "g2"
    /\ sessions[3] = [Session("client", "g1") EXCEPT !.users = {}]
    /\ calls["g1"].pc = "create" /\ calls["g1"].conn = 1 /\ calls["g1"].sc = 3
    /\ calls["g2"].pc = "returned"
    /\ calls["g2"].err = Errorf("failed to create SFTP client", LibraryError)
    /\ sessions[2] = [Session("conn", "g2") EXCEPT
                         !.open = FALSE, !.users = {"g2"}, !.closers = {"g2"}]
    /\ sessions[1] = [Session("conn", "g1") EXCEPT !.users = {"g1"}]

----------------------------------------------------------------------------
(* Further claims about one upload call (Spec).                            *)

IsTransportStep(e) == e \notin {"validate", "marshal"}

IsSerializationError(err) ==
    /\ err.cause = LibraryError
    /\ err.wrap \in {MarshalPrefix(call.kind), "failed to marshal data"}

\* C18 as stated: in every upload call the whole batch is serialized before
\* the transport is touched: no transport step comes before the
\* serialization, and a call that returns a serialization error has made no
\* transport call and leaves no remote file.
C18_SerializeFirst ==
    Called =>
        /\ \A i, j \in 1..Len(call.trace) :
              (IsTransportStep(call.trace[i]) /\ call.trace[j] = "marshal") => j < i
        /\ TransportCalls # <<>> => InTrace(call, "marshal")
        /\ (Returned /\ IsSerializationError(call.err)) =>
              /\ TransportCalls = <<>>
              /\ remote = <<>>

\* UploadCrewScheduleFile of part_001 could not serialize a batch of two
\* valid records and has returned without a transport call
C18_Witness ==
    /\ client.snapshot = "part_001"
    /\ Returned
    /\ call.kind = "CrewSchedule"
    /\ call.err = Errorf("failed to marshal crew schedules", LibraryError)
    /\ call.trace = <<"validate", "validate", "marshal">>
    /\ remote = <<>>

Invalid(kind, rec) == Validate(kind, Some(rec)) # NoErr

\* C19: batch validation is fail-fast in input order: an upload operation
\* that validates (those of unnamed/part_001), called with a batch that has
\* one or more invalid records, returns the error of Validate of the invalid
\* record of lowest index, wrapped as invalid data of the kind, and has
\* validated the records up to that one and none after it.
C19_FailFast ==
    (/\ client.snapshot = "part_001"
     /\ Called
     /\ HasInvalid(call.kind, call.batch))
        => /\ Returned
           /\ \E i \in 1..Len(call.batch) :
                 /\ Invalid(call.kind, call.batch[i])
                 /\ \A j \in 1..(i - 1) : ~Invalid(call.kind, call.batch[j])
                 /\ call.err = Errorf(InvalidDataPrefix(call.kind),
                                      Validate(call.kind, Some(call.batch[i])))
                 /\ call.trace = [k \in 1..i |-> "validate"]

\* UploadVesselFile has rejected a batch of a valid vessel, one without name
\* and one without context id for the missing name, after two validations
C19_Witness ==
    /\ client.snapshot = "part_001"
    /\ Returned
    /\ call.kind = "Vessel"
    /\ Len(call.batch) = 3
    /\ ~Invalid("Vessel", call.batch[1])
    /\ call.batch[2].Name = EmptyStr
    /\ call.batch[3].ContextID = EmptyStr
    /\ call.err = Errorf("invalid vessel data", "missing vessel name")
    /\ call.trace = <<"validate", "validate">>

====
